---- MODULE Spec2Model ----
(***************************************************************************)
(* A model of src/src/lib/useCamera.ts: the module-level stream/recorder   *)
(* state, the useCamera hook's operations, and the browser objects they    *)
(* drive (getUserMedia requests, stream tracks, MediaRecorder, DOM nodes,  *)
(* animation-frame callbacks).  JavaScript is single-threaded: every       *)
(* handler runs to completion, so each handler is one action; what is      *)
(* asynchronous (device acquisition, recorder events, playing events,      *)
(* toBlob callbacks) is a separate action fired by the environment.        *)
(***************************************************************************)
EXTENDS Integers, Sequences, FiniteSets, TLC

\* ---------------------------------------------------------------- bounds
NumInst == 2      \* useCamera() instances alive in the page
NumTracks == 2    \* tracks of one acquired stream
MaxAcq == 2       \* getUserMedia requests issued in one run
SoloAcq == 1      \* ... in a run of the one-instance specifications
SoloRec == 1      \* the same five bounds for SpecTeardown
SoloChunks == 1
SoloStops == 1
SoloRaf == 2
MaxRec == 2       \* MediaRecorder objects created in one run
MaxChunks == 1    \* chunks one recorder emits before it is stopped
MaxStops == 2     \* stopRecording calls made while a recorder exists
MaxRaf == 2       \* animation-frame ids handed out to render-loop callbacks
MaxCaptures == 1  \* capture calls made in one run
MaxEncodings == 1 \* toBlob callbacks one capture call has pending at once
MaxEffects == 3   \* runs of <Camera>'s start-camera effect in one run
MaxDim == 3       \* the largest native or requested width or height

Inst == 1..NumInst
Tracks == 1..NumTracks
Constraints == {"user", "environment"}
\* settings.videoRef: not passed, passed with current = null, or passed with
\* current = the caller's <video> element
VideoRefs == {"absent", "null", "element"}
NoElement == <<>>

VARIABLES
  stream,       \* useCamera.ts:5   0 = undefined, else the id of the stream
  recorder,     \* useCamera.ts:9   0 = undefined, else the id of the recorder
  recordedData, \* useCamera.ts:10  [isArray, data]: undefined, or the Blob[]
  recordingRequestId,     \* useCamera.ts:11  0 = undefined, else the raf id
  recordingVideoElement,  \* useCamera.ts:12  NoElement = undefined
  recordingCanvasElement, \* useCamera.ts:13  NoElement = undefined
  mounted,      \* which hook instances are mounted
  supported,    \* [camera, recording]: the browser has mediaDevices / MediaRecorder
  requests,     \* getUserMedia calls, in issue order; stream k answers call k
  liveTracks,   \* per stream: its tracks whose readyState is "live"
  recorders,    \* the MediaRecorder objects, in creation order
  dom,          \* the elements this module appended to document.body
  raf,          \* scheduled animation-frame callbacks: [id, rec]
  rafNext,      \* the next animation-frame id the browser hands out
  stops,        \* the promises stopRecording returned, in call order
  captures,     \* the capture calls, in call order: the settings' videoRef,
                \* whether the call found a `stream`, the promise, the virtual
                \* <video> and its srcObject, the listener, pending toBlobs
  sinkPaused,   \* `paused` of the caller's <video> element (videoRef.current)
  camera,       \* the <Camera> component over hook instance 1: its state
                \* hooks, the getUserMedia calls its effect issued, and the
                \* errors it passed to onError
  last          \* the handler that ran last: its name, caller, outcome, effects

vars == <<stream, recorder, recordedData, recordingRequestId,
          recordingVideoElement, recordingCanvasElement, mounted, supported,
          requests, liveTracks, recorders, dom, raf, rafNext, stops, captures,
          sinkPaused, camera, last>>

Undefined == [isArray |-> FALSE, data |-> <<>>]

\* The state the clean-up helpers read and write, as one record, so that the
\* helpers compose in program order inside one handler.  `effects` collects
\* the calls the handler makes on browser objects, in order.
Machine ==
  [stream |-> stream, recorder |-> recorder, recordedData |-> recordedData,
   recordingRequestId |-> recordingRequestId,
   recordingVideoElement |-> recordingVideoElement,
   recordingCanvasElement |-> recordingCanvasElement,
   liveTracks |-> liveTracks, recorders |-> recorders, dom |-> dom,
   raf |-> raf, captures |-> captures, effects |-> <<>>]

Effect(m, e) == [m EXCEPT !.effects = Append(@, e)]

\* new Blob(recordedData): the parts in array order (useCamera.ts:15-24).
getRecordedDataAsVideo(m) ==
  IF ~m.recordedData.isArray
  THEN [ok |-> FALSE, clip |-> <<>>]
  ELSE [ok |-> TRUE, clip |-> m.recordedData.data]

\* forEach((track) => track.stop()) over the tracks of stream s, in order.
RECURSIVE StopTracks(_, _, _)
StopTracks(m, s, t) ==
  IF t > NumTracks THEN m
  ELSE StopTracks(Effect([m EXCEPT !.liveTracks[s] = @ \ {t}],
                         <<"track.stop", s, t>>),
                  s, t + 1)

\* stopExistingCameraStreams without its `stream = undefined`.
stopExistingCameraStreams_KeepsReference(m) ==
  IF m.stream # 0 THEN StopTracks(m, m.stream, 1) ELSE m

stopExistingCameraStreams(m) ==
  LET m1 == IF m.stream # 0 THEN StopTracks(m, m.stream, 1) ELSE m
  IN  [m1 EXCEPT !.stream = 0]

\* MediaRecorder.stop(): the state becomes inactive at once; the final
\* dataavailable event and the stop event are queued as a task.
RecorderStop(m, r) ==
  IF m.recorders[r].state = "inactive" THEN m
  ELSE Effect([m EXCEPT !.recorders[r].state = "inactive",
                        !.recorders[r].tasks = <<"dataavailable", "stop">>],
              <<"recorder.stop", r>>)

\* stopExistingRecordings forgetting what it holds without releasing it.
stopExistingRecordings_OnlyForgets(m) ==
  [m EXCEPT !.recordingRequestId = 0, !.recordingCanvasElement = NoElement,
            !.recordingVideoElement = NoElement, !.recorder = 0,
            !.recordedData = Undefined]

\* stopExistingRecordings without its `recorder = undefined`.
stopExistingRecordings_KeepsRecorder(m) ==
  LET m1 == IF m.recordingRequestId # 0
            THEN Effect([m EXCEPT !.raf =
                           {f \in @ : f.id # m.recordingRequestId}],
                        <<"cancelAnimationFrame", m.recordingRequestId>>)
            ELSE m
      m2 == [m1 EXCEPT !.recordingRequestId = 0]
      m3 == IF m2.recordingCanvasElement # NoElement
            THEN Effect([m2 EXCEPT !.dom = @ \ {m2.recordingCanvasElement},
                                   !.recordingCanvasElement = NoElement],
                        <<"canvas.remove">>)
            ELSE m2
      m4 == IF m3.recordingVideoElement # NoElement
            THEN Effect([m3 EXCEPT !.dom = @ \ {m3.recordingVideoElement},
                                   !.recordingVideoElement = NoElement],
                        <<"video.remove">>)
            ELSE m3
      m5 == IF m4.recorder # 0 /\ m4.recorders[m4.recorder].state # "inactive"
            THEN RecorderStop(m4, m4.recorder)
            ELSE m4
  IN  [m5 EXCEPT !.recordedData = Undefined]

stopExistingRecordings(m) ==
  LET m1 == IF m.recordingRequestId # 0
            THEN Effect([m EXCEPT !.raf =
                           {f \in @ : f.id # m.recordingRequestId}],
                        <<"cancelAnimationFrame", m.recordingRequestId>>)
            ELSE m
      m2 == [m1 EXCEPT !.recordingRequestId = 0]
      m3 == IF m2.recordingCanvasElement # NoElement
            THEN Effect([m2 EXCEPT !.dom = @ \ {m2.recordingCanvasElement},
                                   !.recordingCanvasElement = NoElement],
                        <<"canvas.remove">>)
            ELSE m2
      m4 == IF m3.recordingVideoElement # NoElement
            THEN Effect([m3 EXCEPT !.dom = @ \ {m3.recordingVideoElement},
                                   !.recordingVideoElement = NoElement],
                        <<"video.remove">>)
            ELSE m3
      m5 == IF m4.recorder # 0 /\ m4.recorders[m4.recorder].state # "inactive"
            THEN RecorderStop(m4, m4.recorder)
            ELSE m4
  IN  [m5 EXCEPT !.recorder = 0, !.recordedData = Undefined]

\* The two clean-ups in the opposite order.
stopExistingRecordingsAndCameraStreams_StreamsFirst(m) ==
  stopExistingRecordings(stopExistingCameraStreams(m))

stopExistingRecordingsAndCameraStreams(m) ==
  stopExistingCameraStreams(stopExistingRecordings(m))

Commit(m, op, i, outcome, value) ==
  /\ stream' = m.stream
  /\ recorder' = m.recorder
  /\ recordedData' = m.recordedData
  /\ recordingRequestId' = m.recordingRequestId
  /\ recordingVideoElement' = m.recordingVideoElement
  /\ recordingCanvasElement' = m.recordingCanvasElement
  /\ liveTracks' = m.liveTracks
  /\ recorders' = m.recorders
  /\ dom' = m.dom
  /\ raf' = m.raf
  /\ captures' = m.captures
  /\ last' = [op |-> op, inst |-> i, outcome |-> outcome, value |-> value,
              effects |-> m.effects]

\* ------------------------------------------------------- <Camera> state
\* src/unnamed/part_007, the component over useCamera().

NoError == "undefined"
\* JSON.stringify(cameraConstraints): the text of the merged constraints
Stringify(c) == <<"json", c>>
NotApplied == <<>>

NoURL == <<>>
\* A <video> as React mounts it: no stream, no event handlers.
FreshVideo == [srcObject |-> 0, handlers |-> FALSE]

\* The component's state and refs, the calls it has made to onError and
\* onReady, the getUserMedia requests its effect issued, and its capture
\* calls whose promise handleCapture still awaits.
CameraInit ==
  [error |-> NoError, appliedConstraintsJson |-> NotApplied,
   cameraConstraints |-> "user", issued |-> {}, onError |-> <<>>,
   imageDataURL |-> NoURL, awaited |-> {},
   readyCalled |-> FALSE, onReady |-> 0, video |-> FreshVideo]

\* setError telling the parent of every value, undefined included.
setError_InformsAlways(cam, e) ==
  [cam EXCEPT !.error = e,
              !.onError = Append(@, e),
              !.video = IF (e = NoError) = (cam.error = NoError)
                        THEN @ ELSE FreshVideo]

\* part_007:84-87; the error JSX (187-193) has no <video>, so the element is
\* unmounted when an error is set and a new one is mounted when it clears.
setError(cam, e) ==
  [cam EXCEPT !.error = e,
              !.onError = IF e # NoError THEN Append(@, e) ELSE @,
              !.video = IF (e = NoError) = (cam.error = NoError)
                        THEN @ ELSE FreshVideo]

\* informCameraReady without its guard.
informCameraReady_Unguarded(cam) ==
  [cam EXCEPT !.readyCalled = TRUE, !.onReady = @ + 1]

\* part_007:76-81
informCameraReady(cam) ==
  IF cam.readyCalled THEN cam
  ELSE [cam EXCEPT !.readyCalled = TRUE, !.onReady = @ + 1]

\* part_007:99-111, the reaction to request k resolving; the constraints are
\* those the effect that issued the request closed over, and videoRef.current
\* is the <video> of the last render, if that render had one.
CameraThen(cam, k) ==
  LET attached == IF cam.error = NoError
                  THEN [cam EXCEPT !.video = [srcObject |-> k,
                                              handlers |-> TRUE]]
                  ELSE cam
  IN  [setError(attached, NoError) EXCEPT
         !.appliedConstraintsJson = Stringify(requests[k].constraints)]

\* What the component renders (part_007:187-250): the error layout alone, or
\* the <video> and the <img>, the one without a use hidden by usecam-hide.
Render_ShowsBoth(cam) ==
  IF cam.error # NoError
  THEN [layout |-> "error", video |-> "none", img |-> "none"]
  ELSE [layout |-> "camera", video |-> "shown",
        img |-> IF cam.imageDataURL = NoURL THEN "hidden" ELSE "shown"]

Render(cam) ==
  IF cam.error # NoError
  THEN [layout |-> "error", video |-> "none", img |-> "none"]
  ELSE [layout |-> "camera",
        video |-> IF cam.imageDataURL # NoURL THEN "hidden" ELSE "shown",
        img |-> IF cam.imageDataURL = NoURL THEN "hidden" ELSE "shown"]

\* part_007:112-116
CameraCatch(cam, e) ==
  [setError(cam, e) EXCEPT !.appliedConstraintsJson = NotApplied]

\* The ref the component passes as settings.videoRef: the error JSX
\* (part_007:187-193) renders no <video>, so its current is null then.
ComponentVideoRef == IF camera.error # NoError THEN "null" ELSE "element"

\* The module as loaded: nothing held, nothing requested.
InitModule ==
  /\ stream = 0
  /\ recorder = 0
  /\ recordedData = Undefined
  /\ recordingRequestId = 0
  /\ recordingVideoElement = NoElement
  /\ recordingCanvasElement = NoElement
  /\ requests = <<>>
  /\ liveTracks = [s \in {} |-> {}]
  /\ recorders = <<>>
  /\ dom = {}
  /\ raf = {}
  /\ rafNext = 1
  /\ stops = <<>>
  /\ captures = <<>>
  /\ camera = CameraInit
  /\ last = [op |-> "init", inst |-> 0, outcome |-> "ok", value |-> <<>>,
             effects |-> <<>>]

Init ==
  /\ InitModule
  /\ mounted = [i \in Inst |-> TRUE]
  /\ supported \in [camera : BOOLEAN, recording : BOOLEAN]
  /\ sinkPaused \in BOOLEAN

\* ---------------------------------------------------------------- camera

\* startCamera calling getUserMedia before it cleans up.
startCamera_AcquiresFirst(i, c) ==
  /\ mounted[i]
  /\ IF ~supported.camera
     THEN /\ Commit(Machine, "startCamera", i, "Camera not supported", <<>>)
          /\ UNCHANGED requests
     ELSE LET k  == Len(requests) + 1
              m1 == Effect(Machine, <<"getUserMedia", k>>)
          IN  /\ requests' = Append(requests,
                     [owner |-> i, constraints |-> c, status |-> "pending"])
              /\ Commit(stopExistingRecordingsAndCameraStreams(m1),
                        "startCamera", i, "pending", <<>>)
  /\ UNCHANGED <<sinkPaused, mounted, supported, rafNext, stops>>

\* startCamera, up to its await (useCamera.ts:60-71).  What the caller does
\* with the promise is the caller's: `camera` is left to it.
startCamera(i, c) ==
  /\ mounted[i]
  /\ IF ~supported.camera
     THEN /\ Commit(Machine, "startCamera", i, "Camera not supported", <<>>)
          /\ UNCHANGED requests
     ELSE LET m1 == stopExistingRecordingsAndCameraStreams(Machine)
              k  == Len(requests) + 1
          IN  /\ requests' = Append(requests,
                     [owner |-> i, constraints |-> c, status |-> "pending"])
              /\ Commit(Effect(m1, <<"getUserMedia", k>>),
                        "startCamera", i, "pending", <<>>)
  /\ UNCHANGED <<sinkPaused, mounted, supported, rafNext, stops>>

\* getUserMedia resolves: `stream = await ...; return stream` (useCamera.ts:69-72),
\* and then the reaction of the caller, when the caller is <Camera>.
AcquireOk(k) ==
  /\ k \in 1..Len(requests)
  /\ requests[k].status = "pending"
  /\ requests' = [requests EXCEPT ![k].status = "fulfilled"]
  /\ Commit([Machine EXCEPT !.stream = k,
                            !.liveTracks = [s \in DOMAIN @ \cup {k} |->
                                              IF s = k THEN Tracks ELSE @[s]]],
            "getUserMedia.then", requests[k].owner, "ok", <<>>)
  /\ camera' = IF k \in camera.issued THEN CameraThen(camera, k) ELSE camera
  /\ UNCHANGED <<sinkPaused, mounted, supported, rafNext, stops>>

\* getUserMedia rejects: the await throws, `stream` is not assigned.
AcquireFail(k) ==
  /\ k \in 1..Len(requests)
  /\ requests[k].status = "pending"
  /\ requests' = [requests EXCEPT ![k].status = "rejected"]
  /\ Commit(Machine, "getUserMedia.catch", requests[k].owner, "rejected", <<>>)
  /\ camera' = IF k \in camera.issued
               THEN CameraCatch(camera, "NotAllowedError") ELSE camera
  /\ UNCHANGED <<sinkPaused, mounted, supported, rafNext, stops>>

stopCamera(i) ==
  /\ mounted[i]
  /\ Commit(stopExistingRecordingsAndCameraStreams(Machine),
            "stopCamera", i, "ok", <<>>)
  /\ UNCHANGED <<sinkPaused, mounted, supported, requests, rafNext, stops, camera>>

\* The effect clean-up of useCamera.ts:80-82.
Unmount(i) ==
  /\ mounted[i]
  /\ mounted' = [mounted EXCEPT ![i] = FALSE]
  /\ Commit(stopExistingRecordingsAndCameraStreams(Machine),
            "unmount", i, "ok", <<>>)
  /\ UNCHANGED <<sinkPaused, supported, requests, rafNext, stops, camera>>

\* ------------------------------------------------------------- recording

RecVideo(r) == <<"video", "rec", r>>
RecCanvas(r) == <<"canvas", "rec", r>>

\* n * (a / b) stored in canvas.width or canvas.height, for non-negative
\* integers: the quotient is a float, a zero divisor gives Infinity or NaN,
\* and the attribute (an unsigned long) keeps the integer part, 0 for
\* Infinity and NaN.
Scaled(n, a, b) == IF b = 0 THEN 0 ELSE (n * a) \div b

\* The only-width and only-height rules with the native dimensions swapped.
resolveSize_SwapsNative(nw, nh, w, h) ==
  IF w # <<>> /\ h # <<>> THEN <<w[1], h[1]>>
  ELSE IF w # <<>> THEN <<w[1], Scaled(nw, w[1], nh)>>
  ELSE IF h # <<>> THEN <<Scaled(nh, h[1], nw), h[1]>>
  ELSE <<nw, nh>>

\* The canvas size capture and startRecording compute (useCamera.ts:107-127
\* and 196-216) from the video's videoWidth / videoHeight and the requested
\* width / height; <<>> is a width or height that is not a number.
resolveSize(nw, nh, w, h) ==
  IF w # <<>> /\ h # <<>> THEN <<w[1], h[1]>>
  ELSE IF w # <<>> THEN <<w[1], Scaled(nh, w[1], nw)>>
  ELSE IF h # <<>> THEN <<Scaled(nw, h[1], nh), h[1]>>
  ELSE <<nw, nh>>

\* videoWidth and videoHeight of the caller's <video>, which has frames
SinkSize == <<4, 2>>
\* ... and of the source startRecording sizes its canvas from: a <video> it
\* has just created has loaded nothing yet and reports 0 by 0.
NativeSize(vr) == IF vr = "element" THEN SinkSize ELSE <<0, 0>>

\* Where drawImage(myVideo, 0, 0, -W, H) lands after context.scale(-1, 1)
\* has made the x-scale sx: the rectangle [-W, 0] maps onto the surface
\* [0, W], flipped, under -1, and stays left of it under 1.
Landing(mirror, sx) ==
  IF ~mirror THEN "plain" ELSE IF sx = -1 THEN "flipped" ELSE "off-surface"

\* renderVideoOnCanvas of recording r (useCamera.ts:224-233): scale when
\* mirroring, draw, then schedule itself for the next frame under a fresh id.
renderVideoOnCanvas(m, r, id) ==
  LET sx == IF m.recorders[r].mirror THEN -m.recorders[r].scaleX
            ELSE m.recorders[r].scaleX
      m1 == Effect([m EXCEPT !.recorders[r].scaleX = sx],
                   <<"drawImage", r, Landing(m.recorders[r].mirror, sx)>>)
  IN  [m1 EXCEPT !.recordingRequestId = id,
                 !.raf = @ \cup {[id |-> id, rec |-> r]}]

\* The source check left out.
HasRecordingSource_Unchecked(vr) == TRUE

\* useCamera.ts:177: `!stream && !videoRef?.current` is "no source".
HasRecordingSource(vr) == ~(stream = 0 /\ vr # "element")

\* useCamera.ts:169-246; `last.value` keeps the videoRef the call was given.
\* A recorder is kept with the canvas of its session: the size the canvas
\* was given, and the x-scale of its 2d context.
startRecording(i, vr, notify, mirror) ==
  /\ mounted[i]
  /\ IF ~supported.recording
     THEN /\ Commit(Machine, "startRecording", i, "Recording not supported",
                    [videoRef |-> vr])
          /\ UNCHANGED <<rafNext>>
     ELSE IF ~HasRecordingSource(vr)
     THEN /\ Commit(Machine, "startRecording", i,
                    "No source provided for recording", [videoRef |-> vr])
          /\ UNCHANGED <<rafNext>>
     ELSE LET r  == Len(recorders) + 1
              m1 == stopExistingRecordings(Machine)
              m2 == IF vr # "element"
                    THEN Effect([m1 EXCEPT !.dom = @ \cup {RecVideo(r)},
                                           !.recordingVideoElement = RecVideo(r)],
                                <<"appendChild", RecVideo(r)>>)
                    ELSE m1
              m3 == Effect([m2 EXCEPT !.dom = @ \cup {RecCanvas(r)},
                                      !.recordingCanvasElement = RecCanvas(r)],
                           <<"appendChild", RecCanvas(r)>>)
              m4 == [m3 EXCEPT !.recorders = Append(@,
                        [owner |-> i, state |-> "recording", tasks |-> <<>>,
                         onstop |-> 0, emitted |-> 0, notify |-> notify,
                         canvas |-> resolveSize(NativeSize(vr)[1],
                                                NativeSize(vr)[2], <<>>, <<>>),
                         mirror |-> mirror, scaleX |-> 1]),
                               !.recorder = r]
              m5 == renderVideoOnCanvas(m4, r, rafNext)
          IN  /\ Commit(Effect(m5, <<"recorder.start", r>>),
                        "startRecording", i, "ok", [videoRef |-> vr])
              /\ rafNext' = rafNext + 1
  /\ UNCHANGED <<sinkPaused, mounted, supported, requests, stops, camera>>

\* The browser runs a scheduled render-loop callback.
RenderFrame(f) ==
  /\ f \in raf
  /\ Commit(renderVideoOnCanvas([Machine EXCEPT !.raf = @ \ {f}], f.rec, rafNext),
            "raf", recorders[f.rec].owner, "ok", <<>>)
  /\ rafNext' = rafNext + 1
  /\ UNCHANGED <<sinkPaused, mounted, supported, requests, stops, camera>>

\* ondataavailable putting the chunk at the front of the array.
ondataavailable_Prepends(m, r, ch) ==
  LET m1 == [m EXCEPT !.recordedData =
               [isArray |-> TRUE,
                data |-> <<ch>> \o (IF @.isArray THEN @.data ELSE <<>>)]]
  IN  IF m.recorders[r].notify THEN Effect(m1, <<"onDataAvailable", ch>>) ELSE m1

\* recorder.ondataavailable of recorder r (useCamera.ts:239-243), given chunk ch.
ondataavailable(m, r, ch) ==
  LET m1 == [m EXCEPT !.recordedData =
               [isArray |-> TRUE,
                data |-> Append(IF @.isArray THEN @.data ELSE <<>>, ch)]]
  IN  IF m.recorders[r].notify THEN Effect(m1, <<"onDataAvailable", ch>>) ELSE m1

Chunk(r, n) == <<r, n>>

\* Recorder r, still recording, emits a chunk (requestData on the returned
\* recorder, or the encoder's own cadence).
RecorderData(r) ==
  /\ r \in 1..Len(recorders)
  /\ recorders[r].state = "recording"
  /\ LET n == recorders[r].emitted + 1
     IN  Commit(ondataavailable([Machine EXCEPT !.recorders[r].emitted = n],
                                r, Chunk(r, n)),
                "dataavailable", recorders[r].owner, "ok", <<>>)
  /\ UNCHANGED <<sinkPaused, mounted, supported, requests, rafNext, stops, camera>>

\* The task stop() queued delivers the final dataavailable of recorder r.
RecorderFinalData(r) ==
  /\ r \in 1..Len(recorders)
  /\ recorders[r].tasks # <<>>
  /\ Head(recorders[r].tasks) = "dataavailable"
  /\ LET n == recorders[r].emitted + 1
     IN  Commit(ondataavailable([Machine EXCEPT !.recorders[r].emitted = n,
                                                !.recorders[r].tasks = Tail(@)],
                                r, Chunk(r, n)),
                "dataavailable", recorders[r].owner, "ok", <<>>)
  /\ UNCHANGED <<sinkPaused, mounted, supported, requests, rafNext, stops, camera>>

\* The stop handler without its clean-up call.
RecorderStopped_NoCleanup(r) ==
  /\ r \in 1..Len(recorders)
  /\ recorders[r].tasks # <<>>
  /\ Head(recorders[r].tasks) = "stop"
  /\ LET p  == recorders[r].onstop
         m0 == [Machine EXCEPT !.recorders[r].tasks = Tail(@)]
         v  == getRecordedDataAsVideo(m0)
     IN  IF p = 0
         THEN /\ Commit(m0, "stop", recorders[r].owner, "no handler", <<>>)
              /\ UNCHANGED stops
         ELSE IF ~v.ok
         THEN /\ Commit(m0, "stop", recorders[r].owner, "unhandled rejection", <<>>)
              /\ UNCHANGED stops
         ELSE /\ Commit(m0, "stop", recorders[r].owner, "resolved", v.clip)
              /\ stops' = IF stops[p].status # "pending" THEN stops
                           ELSE [stops EXCEPT ![p].status = "resolved",
                                              ![p].clip = v.clip]
  /\ UNCHANGED <<sinkPaused, mounted, supported, requests, rafNext, camera>>

\* ... and then its stop event: recorder.onstop as stopRecording set it
\* (useCamera.ts:253-257); without a handler the event does nothing.
RecorderStopped(r) ==
  /\ r \in 1..Len(recorders)
  /\ recorders[r].tasks # <<>>
  /\ Head(recorders[r].tasks) = "stop"
  /\ LET p  == recorders[r].onstop
         m0 == [Machine EXCEPT !.recorders[r].tasks = Tail(@)]
         v  == getRecordedDataAsVideo(m0)
     IN  IF p = 0
         THEN /\ Commit(m0, "stop", recorders[r].owner, "no handler", <<>>)
              /\ UNCHANGED stops
         ELSE IF ~v.ok
         THEN \* the await throws inside the async handler: nothing settles
              /\ Commit(m0, "stop", recorders[r].owner, "unhandled rejection", <<>>)
              /\ UNCHANGED stops
         ELSE /\ Commit(stopExistingRecordings(m0), "stop", recorders[r].owner,
                        "resolved", v.clip)
              /\ stops' = IF stops[p].status # "pending" THEN stops
                           ELSE [stops EXCEPT ![p].status = "resolved",
                                              ![p].clip = v.clip]
  /\ UNCHANGED <<sinkPaused, mounted, supported, requests, rafNext, camera>>

\* useCamera.ts:250-262
stopRecording(i) ==
  /\ mounted[i]
  /\ IF recorder = 0
     THEN /\ Commit(Machine, "stopRecording", i, "Recording not started", <<>>)
          /\ UNCHANGED stops
     ELSE /\ LET p  == Len(stops) + 1
                 m1 == [Machine EXCEPT !.recorders[recorder].onstop = p]
                 \* line 260: stop() on an inactive recorder throws, and the
                 \* executor's exception rejects the promise; onstop stays set
                 threw == recorders[recorder].state = "inactive"
             IN  /\ Commit(RecorderStop(m1, recorder), "stopRecording", i,
                           IF threw THEN "threw" ELSE "pending", <<>>)
                 /\ stops' = Append(stops,
                       [inst |-> i, rec |-> recorder,
                        status |-> IF threw THEN "rejected" ELSE "pending",
                        clip |-> <<>>])
  /\ UNCHANGED <<sinkPaused, mounted, supported, requests, rafNext, camera>>

\* useCamera.ts:248
getRecordedVideo(i) ==
  /\ mounted[i]
  /\ LET v == getRecordedDataAsVideo(Machine)
     IN  Commit(Machine, "getRecordedVideo", i,
                IF v.ok THEN "resolved" ELSE "No data recorded", v.clip)
  /\ UNCHANGED <<sinkPaused, mounted, supported, requests, rafNext, stops, camera>>

\* --------------------------------------------------------------- capture

CapVideo(c) == <<"video", "cap", c>>
CapCanvas(c) == <<"canvas", "cap", c>>

\* resolve / reject of capture call c: a settled promise stays as it is.
Settle(m, c, status, value, blob) ==
  IF m.captures[c].status # "pending" THEN m
  ELSE [m EXCEPT !.captures[c].status = status,
                 !.captures[c].value = value,
                 !.captures[c].blob = blob]

\* addToCanvasAndCapture resolving as soon as the frame is drawn.
addToCanvasAndCapture_ResolvesOnDraw(m, c) ==
  LET m1 == Effect([m EXCEPT !.dom = @ \cup {CapCanvas(c)}],
                   <<"appendChild", CapCanvas(c)>>)
      m2 == Effect(m1, <<"drawImage", c>>)
      m3 == Settle(m2, c, "resolved", "data:image/jpeg", "none")
      m4 == Effect(m3, <<"toDataURL", c>>)
      m5 == Effect([m4 EXCEPT !.dom = @ \ {CapCanvas(c)}], <<"canvas.remove">>)
  IN  IF m5.captures[c].video # NoElement
      THEN Effect([m5 EXCEPT !.dom = @ \ {m5.captures[c].video}],
                  <<"video.remove">>)
      ELSE m5

\* addToCanvasAndCapture of capture call c (useCamera.ts:106-155).
addToCanvasAndCapture(m, c) ==
  LET m1 == Effect([m EXCEPT !.dom = @ \cup {CapCanvas(c)}],
                   <<"appendChild", CapCanvas(c)>>)
      m2 == Effect(m1, <<"drawImage", c>>)
      m3 == Effect(m2, <<"toDataURL", c>>)
      m4 == Effect([m3 EXCEPT !.captures[c].encoding = @ + 1], <<"toBlob", c>>)
      m5 == Effect([m4 EXCEPT !.dom = @ \ {CapCanvas(c)}], <<"canvas.remove">>)
  IN  IF m5.captures[c].video # NoElement
      THEN Effect([m5 EXCEPT !.dom = @ \ {m5.captures[c].video}],
                  <<"video.remove">>)
      ELSE m5

\* The check written `!stream && !videoRef`.
CheckCaptureSource_RefOnly(m, c, vr) ==
  IF m.stream = 0 /\ vr = "absent"
  THEN Settle(m, c, "rejected", "No source provided for capture", "none")
  ELSE m

\* useCamera.ts:89: `if (!stream && !videoRef?.current) reject(...)`, with no
\* return: the executor carries on after rejecting.
CheckCaptureSource(m, c, vr) ==
  IF m.stream = 0 /\ vr # "element"
  THEN Settle(m, c, "rejected", "No source provided for capture", "none")
  ELSE m

\* The paused check always finding the sink playing.
IsPaused_Never(vr) == FALSE

\* useCamera.ts:158, myVideo.paused: a <video> just created is paused; the
\* caller's element is as the caller left it.
IsPaused(vr) == IF vr = "null" THEN TRUE ELSE sinkPaused

\* useCamera.ts:86-165, the promise executor; what the caller does with the
\* promise is the caller's.
capture(i, vr) ==
  /\ mounted[i]
  /\ LET c  == Len(captures) + 1
         m0 == [Machine EXCEPT !.captures = Append(@,
                  [vr |-> vr, hadStream |-> stream # 0, status |-> "pending",
                   value |-> "", blob |-> "none",
                   video |-> NoElement, src |-> 0, listening |-> FALSE,
                   played |-> FALSE, encoding |-> 0])]
         m1 == CheckCaptureSource(m0, c, vr)
     IN  IF vr = "absent"
         THEN \* line 92: videoRef!.current on an undefined videoRef throws,
              \* and the executor's exception rejects the promise
              Commit(Settle(m1, c, "rejected", "TypeError", "none"),
                     "capture", i, "threw", <<>>)
         ELSE LET m2 == IF vr = "null"
                        THEN Effect([m1 EXCEPT !.captures[c].video = CapVideo(c),
                                               !.captures[c].src = stream,
                                               !.dom = @ \cup {CapVideo(c)}],
                                    <<"appendChild", CapVideo(c)>>)
                        ELSE m1
              IN  IF ~IsPaused(vr)
                  THEN Commit(addToCanvasAndCapture(m2, c), "capture", i, "ok", <<>>)
                  ELSE Commit(Effect(Effect([m2 EXCEPT !.captures[c].listening = TRUE],
                                            <<"addEventListener", c>>),
                                     <<"play", c>>),
                              "capture", i, "ok", <<>>)
  /\ UNCHANGED <<sinkPaused, mounted, supported, requests, rafNext, stops>>

\* The virtual <video> of capture call c starts playing its stream.
VirtualPlaying(c) ==
  /\ c \in 1..Len(captures)
  /\ captures[c].video # NoElement
  /\ captures[c].listening
  /\ ~captures[c].played
  /\ captures[c].src # 0
  /\ liveTracks[captures[c].src] # {}
  /\ Commit(addToCanvasAndCapture([Machine EXCEPT !.captures[c].played = TRUE], c),
            "playing", 0, "ok", <<>>)
  /\ UNCHANGED <<sinkPaused, mounted, supported, requests, rafNext, stops, camera>>

\* The listeners registered on the caller's <video>, run in registration order.
RECURSIVE RunSinkListeners(_, _)
RunSinkListeners(m, c) ==
  IF c > Len(m.captures) THEN m
  ELSE RunSinkListeners(
         IF m.captures[c].vr = "element" /\ m.captures[c].listening
         THEN addToCanvasAndCapture(m, c) ELSE m,
         c + 1)

\* The caller's <video> goes from paused to playing and fires `playing`.
SinkPlaying ==
  /\ sinkPaused
  /\ sinkPaused' = FALSE
  /\ Commit(RunSinkListeners(Machine, 1), "playing", 0, "ok", <<>>)
  /\ UNCHANGED <<mounted, supported, requests, rafNext, stops, camera>>

SinkPaused ==
  /\ ~sinkPaused
  /\ sinkPaused' = TRUE
  /\ Commit(Machine, "pause", 0, "ok", <<>>)
  /\ UNCHANGED <<mounted, supported, requests, rafNext, stops, camera>>

\* The toBlob callback rejecting when it is given no blob.
ToBlobDone_RejectsNull(c, blob) ==
  /\ c \in 1..Len(captures)
  /\ captures[c].encoding > 0
  /\ Commit(Settle([Machine EXCEPT !.captures[c].encoding = @ - 1],
                   c, IF blob = "null" THEN "rejected" ELSE "resolved",
                   "data:image/jpeg", blob),
            "toBlob", 0, "ok", blob)
  /\ UNCHANGED <<sinkPaused, mounted, supported, requests, rafNext, stops>>

\* canvas.toBlob calls back (useCamera.ts:143-148); blob is null when the
\* image could not be encoded.  `last.value` keeps what the callback got.
ToBlobDone(c, blob) ==
  /\ c \in 1..Len(captures)
  /\ captures[c].encoding > 0
  /\ Commit(Settle([Machine EXCEPT !.captures[c].encoding = @ - 1],
                   c, "resolved", "data:image/jpeg", blob),
            "toBlob", 0, "ok", blob)
  /\ UNCHANGED <<sinkPaused, mounted, supported, requests, rafNext, stops>>

\* ------------------------------------------------------------ the sizes

\* The size computation alone, for a video reporting nw by nh and the
\* settings' width w and height h.
SizeSurface(nw, nh, w, h) ==
  /\ Commit(Machine, "resolveSize", 0, "ok",
            [native |-> <<nw, nh>>, width |-> w, height |-> h,
             size |-> resolveSize(nw, nh, w, h)])
  /\ UNCHANGED <<sinkPaused, mounted, supported, requests, rafNext, stops,
                 camera>>

\* ------------------------------------------------------------- <Camera>

\* A render with constraints c whose start-camera effect runs
\* (part_007:93-118); a startCamera that throws rejects its promise, and the
\* catch reaction runs before anything else does.
CameraEffect(c) ==
  /\ mounted[1]
  /\ IF Stringify(c) = camera.appliedConstraintsJson
     THEN /\ Commit(Machine, "Camera.effect", 1, "unchanged", <<>>)
          /\ camera' = [camera EXCEPT !.cameraConstraints = c]
          /\ UNCHANGED <<sinkPaused, mounted, supported, requests, rafNext,
                         stops>>
     ELSE /\ startCamera(1, c)
          /\ LET cam == [camera EXCEPT !.cameraConstraints = c]
             IN  camera' = IF ~supported.camera
                           THEN CameraCatch(cam, "Camera not supported")
                           ELSE [cam EXCEPT !.issued = @ \cup {Len(requests) + 1}]

\* part_007:136-147, up to its await; a capture promise settled by the
\* executor itself is rejected, and handleCapture rejects with it.
handleCapture ==
  /\ capture(1, ComponentVideoRef)
  /\ camera' = IF captures'[Len(captures')].status = "pending"
               THEN [camera EXCEPT !.awaited = @ \cup {Len(captures')}]
               ELSE camera

\* The toBlob callback of a capture, and handleCapture after its await
\* (part_007:140-145) when this settles the promise: the value is an object,
\* whether or not its blob is null.
CameraToBlobDone(c, blob) ==
  /\ ToBlobDone(c, blob)
  /\ camera' = IF c \in camera.awaited /\ captures[c].status = "pending"
               THEN [camera EXCEPT !.awaited = @ \ {c},
                                   !.imageDataURL = <<captures'[c].value>>]
               ELSE camera

\* part_007:149-151, with the URL of a capture the caller has
handleSetCaptured(c) ==
  /\ mounted[1]
  /\ c \in 1..Len(captures) /\ captures[c].status = "resolved"
  /\ Commit(Machine, "handleSetCaptured", 1, "ok", <<>>)
  /\ camera' = [camera EXCEPT !.imageDataURL = <<captures[c].value>>]
  /\ UNCHANGED <<sinkPaused, mounted, supported, requests, rafNext, stops>>

\* part_007:153-155
handleClear ==
  /\ mounted[1]
  /\ Commit(Machine, "handleClear", 1, "ok", <<>>)
  /\ camera' = [camera EXCEPT !.imageDataURL = NoURL]
  /\ UNCHANGED <<sinkPaused, mounted, supported, requests, rafNext, stops>>

\* A re-render that informs the parent of the error it holds.
CameraRerender_InformsAgain ==
  /\ mounted[1]
  /\ Commit(Machine, "Camera.render", 1, "ok", <<>>)
  /\ camera' = setError(camera, camera.error)
  /\ UNCHANGED <<sinkPaused, mounted, supported, requests, rafNext, stops>>

\* A re-render with the same constraints object and any other props, a new
\* onError among them: no effect of part_007 depends on them (93-118).
CameraRerender ==
  /\ mounted[1]
  /\ Commit(Machine, "Camera.render", 1, "ok", <<>>)
  /\ UNCHANGED <<sinkPaused, mounted, supported, requests, rafNext, stops,
                 camera>>

\* The component's <video> fires `playing` or `canplay`: the handlers the
\* then-reaction set (part_007:101-102) and, on `playing`, the listeners
\* capture added to the element.  `last.value` keeps whether onReady had
\* already been called.
VideoEvents == {"playing", "canplay"}
CameraVideoEvent(e) ==
  /\ mounted[1]
  /\ camera.error = NoError
  /\ camera.video.srcObject # 0
  /\ sinkPaused' = IF e = "playing" THEN FALSE ELSE sinkPaused
  /\ Commit(IF e = "playing" THEN RunSinkListeners(Machine, 1) ELSE Machine,
            e, 1, "ok", [already |-> camera.readyCalled])
  /\ camera' = IF camera.video.handlers THEN informCameraReady(camera)
               ELSE camera
  /\ UNCHANGED <<mounted, supported, requests, rafNext, stops>>

\* part_007:157-162
handleStartRecording ==
  startRecording(1, ComponentVideoRef, FALSE, camera.cameraConstraints = "user")

\* ------------------------------------------------------------ next-state
\* What the callers and the browser may do next.  The bounds of a run are
\* stated here, on the environment, not in the handlers.

CanAcquire == Len(requests) < MaxAcq
CanRecord == Len(recorders) < MaxRec
CanEmit(r) == r \in 1..Len(recorders) /\ recorders[r].emitted < MaxChunks
CanStop == recorder # 0 => Len(stops) < MaxStops
CanFrame == rafNext <= MaxRaf
CanCapture == Len(captures) < MaxCaptures
CanEncode == \A c \in 1..Len(captures) : captures[c].encoding < MaxEncodings

NextCamera ==
  \/ \E i \in Inst, c \in Constraints :
       CanAcquire /\ startCamera(i, c) /\ UNCHANGED camera
  \/ \E k \in 1..MaxAcq : AcquireOk(k)
  \/ \E k \in 1..MaxAcq : AcquireFail(k)
  \/ \E i \in Inst : stopCamera(i)
  \/ \E i \in Inst : Unmount(i)

NextRecording ==
  \/ \E i \in Inst, vr \in VideoRefs, n \in BOOLEAN :
       CanRecord /\ \E mi \in BOOLEAN : startRecording(i, vr, n, mi)
  \/ \E f \in raf : CanFrame /\ RenderFrame(f)
  \/ \E r \in 1..MaxRec : CanEmit(r) /\ RecorderData(r)
  \/ \E r \in 1..MaxRec : RecorderFinalData(r)
  \/ \E r \in 1..MaxRec : RecorderStopped(r)
  \/ \E i \in Inst : CanStop /\ stopRecording(i)
  \/ \E i \in Inst : getRecordedVideo(i)

NextCapture ==
  \/ \E i \in Inst, vr \in VideoRefs :
       CanCapture /\ capture(i, vr) /\ UNCHANGED camera
  \/ \E c \in 1..MaxCaptures : VirtualPlaying(c)
  \/ CanEncode /\ SinkPlaying
  \/ SinkPaused
  \/ \E c \in 1..MaxCaptures, b \in {"blob", "null"} :
       ToBlobDone(c, b) /\ UNCHANGED camera

Next == NextCamera \/ NextRecording \/ NextCapture

Spec == Init /\ [][Next]_vars

\* The camera operations alone, from every hook instance.
InitCamera ==
  /\ InitModule
  /\ mounted = [i \in Inst |-> TRUE]
  /\ supported \in [camera : BOOLEAN, recording : {TRUE}]
  /\ sinkPaused = TRUE
SpecCamera == InitCamera /\ [][NextCamera]_vars

\* One hook instance: the camera and the recording operations.
InitSolo ==
  /\ InitModule
  /\ mounted = [i \in Inst |-> i = 1]
  /\ supported \in [camera : {TRUE}, recording : BOOLEAN]
  /\ sinkPaused = TRUE
NextSolo(acq, rec, chunks, nstops, frames) ==
  \/ Len(requests) < acq /\ startCamera(1, "user") /\ UNCHANGED camera
  \/ \E k \in 1..acq : AcquireOk(k)
  \/ stopCamera(1)
  \/ Unmount(1)
  \/ \E vr \in {"null", "element"} :
       Len(recorders) < rec /\ startRecording(1, vr, TRUE, TRUE)
  \/ \E f \in raf : rafNext <= frames /\ RenderFrame(f)
  \/ \E r \in 1..Len(recorders) :
       recorders[r].emitted < chunks /\ RecorderData(r)
  \/ \E r \in 1..Len(recorders) : RecorderFinalData(r)
  \/ \E r \in 1..Len(recorders) : RecorderStopped(r)
  \/ (recorder # 0 => Len(stops) < nstops) /\ stopRecording(1)
  \/ getRecordedVideo(1)
SpecRecording ==
  InitSolo /\ [][NextSolo(SoloAcq, MaxRec, MaxChunks, MaxStops, MaxRaf)]_vars

\* The same, with one recording started in a run.
SpecTeardown ==
  InitSolo /\ [][NextSolo(SoloAcq, SoloRec, SoloChunks, SoloStops, SoloRaf)]_vars

\* One hook instance starting recordings one over the other; the encoders
\* emit their final chunk only.
NextSessions(acq, rec, nstops, frames) ==
  \/ Len(requests) < acq /\ startCamera(1, "user") /\ UNCHANGED camera
  \/ \E k \in 1..acq : AcquireOk(k)
  \/ stopCamera(1)
  \/ \E vr \in {"null", "element"} :
       Len(recorders) < rec /\ startRecording(1, vr, TRUE, TRUE)
  \/ \E f \in raf : rafNext <= frames /\ RenderFrame(f)
  \/ \E r \in 1..Len(recorders) : RecorderFinalData(r)
  \/ \E r \in 1..Len(recorders) : RecorderStopped(r)
  \/ (recorder # 0 => Len(stops) < nstops) /\ stopRecording(1)
SpecSessions ==
  InitSolo /\ [][NextSessions(SoloAcq, MaxRec, SoloStops, SoloRaf)]_vars

\* One hook instance: the camera and the capture operations.
InitCapture ==
  /\ InitModule
  /\ mounted = [i \in Inst |-> i = 1]
  /\ supported = [camera |-> TRUE, recording |-> TRUE]
  /\ sinkPaused \in BOOLEAN
NextCaptureCamera ==
  \/ Len(requests) < SoloAcq /\ startCamera(1, "user") /\ UNCHANGED camera
  \/ \E k \in 1..SoloAcq : AcquireOk(k)
  \/ stopCamera(1)
NextSoloCapture ==
  \/ \E vr \in VideoRefs : CanCapture /\ capture(1, vr) /\ UNCHANGED camera
  \/ \E c \in 1..MaxCaptures : VirtualPlaying(c)
  \/ CanEncode /\ SinkPlaying
  \/ SinkPaused
  \/ \E c \in 1..MaxCaptures, b \in {"blob", "null"} :
       ToBlobDone(c, b) /\ UNCHANGED camera
SpecCapture == InitCapture /\ [][NextCaptureCamera \/ NextSoloCapture]_vars

\* The size computation over every small native size and request.
Dims == 0..MaxDim
Requested == {<<>>} \cup {<<n>> : n \in Dims}
NextSize ==
  \E nw \in Dims, nh \in Dims, w \in Requested, h \in Requested :
    SizeSurface(nw, nh, w, h)
SpecSize == InitCapture /\ [][NextSize]_vars

\* The <Camera> component alone drives hook instance 1.
InitComponent ==
  /\ InitModule
  /\ mounted = [i \in Inst |-> i = 1]
  /\ supported \in [camera : BOOLEAN, recording : {TRUE}]
  /\ sinkPaused = TRUE
NextComponent ==
  \/ \E c \in Constraints :
       /\ Len(requests) + Len(camera.onError) < MaxEffects
       /\ Len(requests) < MaxAcq
       /\ CameraEffect(c)
  \/ \E k \in 1..MaxAcq : AcquireOk(k)
  \/ \E k \in 1..MaxAcq : AcquireFail(k)
  \/ CanCapture /\ handleCapture
  \/ \E c \in 1..MaxCaptures : VirtualPlaying(c)
  \/ \E e \in VideoEvents : CanEncode /\ CameraVideoEvent(e)
  \/ \E c \in 1..MaxCaptures, b \in {"blob", "null"} : CameraToBlobDone(c, b)
  \/ CanRecord /\ handleStartRecording
  \/ CameraRerender
  \/ handleClear
  \/ \E c \in 1..MaxCaptures : handleSetCaptured(c)
SpecComponent == InitComponent /\ [][NextComponent]_vars

\* The component starting and restarting the camera, and its <video>.
NextCameraStart ==
  \/ \E c \in Constraints :
       /\ Len(requests) + Len(camera.onError) < MaxEffects
       /\ Len(requests) < MaxAcq
       /\ CameraEffect(c)
  \/ \E k \in 1..MaxAcq : AcquireOk(k)
  \/ \E k \in 1..MaxAcq : AcquireFail(k)
  \/ \E e \in VideoEvents : CameraVideoEvent(e)
  \/ CameraRerender
SpecCameraStart == InitComponent /\ [][NextCameraStart]_vars

\* The component capturing, between camera starts.
NextPreview ==
  \/ \E c \in Constraints :
       Len(requests) + Len(camera.onError) < MaxAcq /\ CameraEffect(c)
  \/ \E k \in 1..MaxAcq : AcquireOk(k)
  \/ \E k \in 1..MaxAcq : AcquireFail(k)
  \/ CanCapture /\ handleCapture
  \/ \E c \in 1..MaxCaptures : VirtualPlaying(c)
  \/ \E e \in VideoEvents : CanEncode /\ CameraVideoEvent(e)
  \/ \E c \in 1..MaxCaptures, b \in {"blob", "null"} : CameraToBlobDone(c, b)
  \/ handleClear
  \/ \E c \in 1..MaxCaptures : handleSetCaptured(c)
SpecPreview == InitComponent /\ [][NextPreview]_vars

\* ---------------------------------------------------------------- claims

EffectTags(e) == {e[j][1] : j \in 1..Len(e)}
\* every position of an effect tagged a comes before every position tagged b
AllBefore(e, a, b) ==
  \A j, k \in 1..Len(e) : (e[j][1] \in a /\ e[k][1] \in b) => j < k
LiveStreams == {s \in DOMAIN liveTracks : liveTracks[s] # {}}
Teardowns == {"stopCamera", "unmount"}
RecordingTeardownEffects ==
  {"cancelAnimationFrame", "canvas.remove", "video.remove", "recorder.stop"}

\* C1: whatever the order of startCamera / stopCamera calls and acquisition
\* completions, at most one acquired stream has a track that is not stopped.
C1_AtMostOneLiveStream == Cardinality(LiveStreams) <= 1

\* C2: a clip handed out for a recording session (by stopRecording, or by
\* getRecordedVideo while that session's recorder is the current one) holds
\* only chunks that session's encoder emitted.
C2_ClipHoldsOwnChunksOnly ==
  /\ \A p \in 1..Len(stops) :
       stops[p].status = "resolved" =>
         \A j \in 1..Len(stops[p].clip) : stops[p].clip[j][1] = stops[p].rec
  /\ (last.op = "getRecordedVideo" /\ recorder # 0) =>
       \A j \in 1..Len(last.value) : last.value[j][1] = recorder

\* C3: a getRecordedVideo call made right after the stop handler resolved
\* stopRecording resolves too, with the same clip.
C3_RereadAfterStop ==
  [][(last.op = "stop" /\ last.outcome = "resolved" /\ last'.op = "getRecordedVideo")
       => (last'.outcome = "resolved" /\ last'.value = last.value)]_vars

\* C4: a capture call made with a stream held and no playback sink in the
\* settings (videoRef absent, or its current null) attaches the stream to a
\* virtual sink of its own and is not rejected; once that sink has played and
\* the encoder has called back, it is resolved with a non-empty url.
C4_CaptureFromStream ==
  \A c \in 1..Len(captures) :
    (captures[c].vr # "element" /\ captures[c].hadStream)
      => /\ captures[c].video # NoElement
         /\ captures[c].src # 0
         /\ captures[c].status # "rejected"
         /\ (captures[c].played /\ captures[c].encoding = 0)
              => (captures[c].status = "resolved" /\ captures[c].value # "")

\* C5: a startCamera call that issues a device-acquisition request while a
\* stream is held has stopped every track of that stream, within the same
\* call, before it issues the request.
C5_StopBeforeAcquire ==
  [][(Len(requests') = Len(requests) + 1 /\ stream # 0)
       => /\ liveTracks'[stream] = {}
          /\ \A t \in Tracks :
               \E j \in 1..Len(last'.effects) :
                 last'.effects[j] = <<"track.stop", stream, t>>
          /\ AllBefore(last'.effects, {"track.stop"}, {"getUserMedia"})]_vars

C5_Witness ==
  /\ last.op = "startCamera"
  /\ {"track.stop", "getUserMedia"} \subseteq EffectTags(last.effects)

\* C6: while a stream is held, no device-acquisition request is issued with
\* constraints equal to those the held stream was acquired with, and such a
\* startCamera call stops none of its tracks.
C6_EqualConstraintsIsNoop ==
  [][(/\ stream # 0
      /\ Len(requests') = Len(requests) + 1
      /\ requests'[Len(requests')].constraints = requests[stream].constraints)
       => FALSE]_vars

\* C7: a call on one hook instance (startCamera, stopCamera, startRecording,
\* stopRecording, unmount) stops no track of a stream another instance
\* acquired and leaves the other instance's recorders as they were.
C7_InstancesDoNotInterfere ==
  [][(last'.op \in {"startCamera", "stopCamera", "unmount", "startRecording",
                    "stopRecording"})
       => /\ \A s \in DOMAIN liveTracks :
               requests[s].owner # last'.inst => liveTracks'[s] = liveTracks[s]
          /\ \A r \in 1..Len(recorders) :
               recorders[r].owner # last'.inst => recorders'[r] = recorders[r]
    ]_vars

\* C8: a teardown (stopCamera, unmount) raises no error, releases the
\* recording before it stops a track, drops the chunks without settling any
\* stopRecording promise, and leaves no stream, recorder, render loop or
\* recording surface behind.
C8_Teardown ==
  [][(last'.op \in Teardowns)
       => /\ last'.outcome = "ok"
          /\ AllBefore(last'.effects, RecordingTeardownEffects, {"track.stop"})
          /\ stops' = stops
          /\ recordedData' = Undefined
          /\ stream' = 0 /\ (stream # 0 => liveTracks'[stream] = {})
          /\ recorder' = 0
          /\ \A r \in 1..Len(recorders') : recorders'[r].state = "inactive"
          /\ recordingRequestId' = 0 /\ raf' = {}
          /\ recordingCanvasElement' = NoElement
          /\ recordingVideoElement' = NoElement
          /\ \A e \in dom' : e[2] # "rec"]_vars

C8_Witness ==
  /\ last.op \in Teardowns
  /\ {"cancelAnimationFrame", "canvas.remove", "video.remove", "recorder.stop",
      "track.stop"} \subseteq EffectTags(last.effects)
  /\ \E r \in 1..Len(recorders) : recorders[r].emitted > 0

\* What this module holds when nothing is started.
NothingHeld ==
  /\ stream = 0 /\ recorder = 0 /\ recordedData = Undefined
  /\ recordingRequestId = 0
  /\ recordingCanvasElement = NoElement /\ recordingVideoElement = NoElement

\* C9 as stated: stopCamera called when no stream was ever requested, or
\* right after another stopCamera, stops no track, changes no state and
\* raises no error.
C9_StopCameraChangesNothing ==
  [][(last'.op = "stopCamera" /\ (requests = <<>> \/ last.op = "stopCamera"))
       => /\ last'.outcome = "ok"
          /\ "track.stop" \notin EffectTags(last'.effects)
          /\ UNCHANGED <<stream, recorder, recordedData, recordingRequestId,
                         recordingVideoElement, recordingCanvasElement,
                         liveTracks, recorders, dom, raf>>]_vars

\* C9 amended: stopCamera never raises; with no stream held it stops no
\* track; with nothing held at all (as when nothing was ever started) it
\* changes no state; and it leaves nothing held, so that a second stopCamera
\* right after it changes nothing.
C9_StopCameraIdempotent ==
  [][(last'.op = "stopCamera")
       => /\ last'.outcome = "ok"
          /\ stream = 0 => /\ "track.stop" \notin EffectTags(last'.effects)
                           /\ liveTracks' = liveTracks
          /\ NothingHeld => /\ last'.effects = <<>>
                            /\ UNCHANGED <<stream, recorder, recordedData,
                                           recordingRequestId,
                                           recordingVideoElement,
                                           recordingCanvasElement, liveTracks,
                                           recorders, dom, raf>>
          /\ NothingHeld']_vars

C9_Witness ==
  /\ last.op = "stopCamera"
  /\ last.effects = <<>>
  /\ \E k \in 1..Len(requests) : requests[k].status = "fulfilled"
  /\ Len(recorders) > 0

\* C10: a capture call made with no stream held and no playback sink
\* (videoRef absent, or its current null) is rejected with the no-source
\* error.
C10_CaptureNoSource ==
  \A c \in 1..Len(captures) :
    (captures[c].vr \in {"absent", "null"} /\ ~captures[c].hadStream)
      => /\ captures[c].status = "rejected"
         /\ captures[c].value = "No source provided for capture"

C10_Witness ==
  \E c \in 1..Len(captures) :
    /\ captures[c].vr = "null" /\ ~captures[c].hadStream
    /\ captures[c].status = "rejected"
    /\ captures[c].value = "No source provided for capture"
    /\ last.op = "getUserMedia.then"

\* C11: a capture call rejected for lack of a source has allocated nothing:
\* it created and appended no virtual sink, registered no listener and
\* started no playback.
C11_NoSourceAllocatesNothing ==
  \A c \in 1..Len(captures) :
    captures[c].value = "No source provided for capture"
      => /\ captures[c].video = NoElement
         /\ ~captures[c].listening
         /\ {CapVideo(c), CapCanvas(c)} \cap dom = {}

\* C12: once a capture call has settled, resolved or rejected, no element it
\* created is attached to the document.
C12_SettledCaptureLeavesNoElement ==
  \A c \in 1..Len(captures) :
    captures[c].status # "pending"
      => {CapVideo(c), CapCanvas(c)} \cap dom = {}

\* The chunks recorder r has emitted so far, in emission order.
Emitted(r) == [j \in 1..recorders[r].emitted |-> Chunk(r, j)]
\* The stopRecording promises a step resolved.
ResolvedNow == {p \in 1..Len(stops) :
                  stops[p].status = "pending" /\ stops'[p].status = "resolved"}

AllRecordersDone ==
  \A r \in 1..Len(recorders) :
    recorders[r].state = "inactive" /\ recorders[r].tasks = <<>>

\* C14: stopRecording called when no recording was started, or when every
\* recording was fully stopped, or right after a teardown, rejects with the
\* not-recording error and changes no state.
C14_StopWithoutRecording ==
  [][(last'.op = "stopRecording" /\ (AllRecordersDone \/ last.op \in Teardowns))
       => /\ last'.outcome = "Recording not started"
          /\ last'.effects = <<>>
          /\ UNCHANGED <<stream, recorder, recordedData, recordingRequestId,
                         recordingVideoElement, recordingCanvasElement,
                         liveTracks, recorders, dom, raf, stops>>]_vars

C14_Witness ==
  /\ last.op = "stopRecording" /\ last.outcome = "Recording not started"
  /\ \E p \in 1..Len(stops) : stops[p].status = "resolved"

\* C15: with no recorder recording and no stopRecording resolved,
\* getRecordedVideo rejects.
C15_NoClipWithoutRecording ==
  [][(/\ last'.op = "getRecordedVideo"
      /\ \A r \in 1..Len(recorders) : recorders[r].state = "inactive"
      /\ \A p \in 1..Len(stops) : stops[p].status # "resolved")
       => last'.outcome = "No data recorded"]_vars

\* A startRecording step that allocated nothing.
AllocatesNothing ==
  /\ last'.effects = <<>>
  /\ UNCHANGED <<dom, raf, rafNext, recorders, recorder, recordedData,
                 recordingRequestId, recordingCanvasElement,
                 recordingVideoElement>>

\* C16 as stated: startRecording with no stream held and no playback sink
\* throws the no-source error and allocates nothing.
C16_NoSourceThrows ==
  [][(/\ last'.op = "startRecording"
      /\ stream = 0 /\ last'.value.videoRef # "element")
       => /\ last'.outcome = "No source provided for recording"
          /\ AllocatesNothing]_vars

\* C16 amended: such a call allocates nothing and throws: the no-source
\* error where MediaRecorder is available, the not-supported error where it
\* is not.
C16_NoSourceOrUnsupportedThrows ==
  [][(/\ last'.op = "startRecording"
      /\ stream = 0 /\ last'.value.videoRef # "element")
       => /\ last'.outcome = IF supported.recording
                             THEN "No source provided for recording"
                             ELSE "Recording not supported"
          /\ AllocatesNothing]_vars

C16_Witness ==
  /\ last.op = "startRecording"
  /\ last.outcome = "No source provided for recording"
  /\ stream = 0 /\ Len(requests) > 0

\* C17: at most one recording session is active: at most one recorder is not
\* inactive, at most one render-loop callback is scheduled, and at most one
\* recording canvas and one recording sink are attached to the document.
C17_AtMostOneSession ==
  /\ Cardinality({r \in 1..Len(recorders) : recorders[r].state # "inactive"}) <= 1
  /\ Cardinality(raf) <= 1
  /\ Cardinality({e \in dom : e[1] = "canvas" /\ e[2] = "rec"}) <= 1
  /\ Cardinality({e \in dom : e[1] = "video" /\ e[2] = "rec"}) <= 1

\* A second recording was started while the first was recording, and the
\* first one's canvas and sink were in the document.
C17_Witness ==
  /\ Len(recorders) >= 2
  /\ last.op = "startRecording" /\ last.outcome = "ok"
  /\ {"cancelAnimationFrame", "canvas.remove", "video.remove",
      "recorder.stop"} \subseteq EffectTags(last.effects)
  /\ RecVideo(Len(recorders)) \in dom

\* C18: once stopRecording has been called on a recorder, no frame of that
\* recording is drawn any more.
C18_NoFrameAfterStop ==
  [][last'.op = "raf" =>
       \A j \in 1..Len(last'.effects) :
         last'.effects[j][1] = "drawImage"
           => recorders[last'.effects[j][2]].onstop = 0]_vars

\* C19: in the step that resolves a stopRecording promise the render loop is
\* cancelled, the recording canvas and sink are out of the document, and
\* none of them, nor the recorder, is referenced any more.
C19_ResolvedStopReleases ==
  [][ResolvedNow # {} =>
       /\ recordingRequestId' = 0 /\ raf' = {}
       /\ recordingCanvasElement' = NoElement
       /\ recordingVideoElement' = NoElement
       /\ \A e \in dom' : e[2] # "rec"
       /\ recorder' = 0
       /\ \A p \in ResolvedNow : recorders'[stops[p].rec].state = "inactive"]_vars

C19_Witness ==
  /\ last.op = "stop" /\ last.outcome = "resolved"
  /\ \E p \in 1..Len(stops) : stops[p].status = "resolved"
  /\ {"cancelAnimationFrame", "canvas.remove", "video.remove"}
       \subseteq EffectTags(last.effects)

\* C20: while <Camera> holds an error, no stream reference is held, the
\* error was passed to onError, and a capture or startRecording made through
\* the component fails.
C20_ErrorHeld ==
  camera.error # NoError =>
    /\ stream = 0
    /\ camera.onError # <<>>
    /\ last.op = "capture" => captures[Len(captures)].status = "rejected"
    /\ last.op = "startRecording" => last.outcome # "ok"

\* The capture calls a step resolved.
CaptureResolvedNow ==
  {c \in 1..Len(captures) :
     captures[c].status = "pending" /\ captures'[c].status = "resolved"}
\* The positions of effect e carrying tag t.
At(e, t) == {j \in 1..Len(e) : e[j][1] = t}

\* C21: within a handler the frame of a capture is drawn before either of
\* its encodings is started; a handler that draws resolves no capture; and a capture is
\* resolved only by the encoder's callback, for an encoding that call had
\* started.
C21_DrawEncodeResolve ==
  [][/\ \A j \in At(last'.effects, "toDataURL") \cup At(last'.effects, "toBlob") :
          \A k \in At(last'.effects, "drawImage") :
            last'.effects[k][2] = last'.effects[j][2] => k < j
     /\ \A j \in At(last'.effects, "toBlob") :
          \E k \in At(last'.effects, "drawImage") :
            k < j /\ last'.effects[k][2] = last'.effects[j][2]
     /\ \A c \in CaptureResolvedNow :
          /\ last'.op = "toBlob"
          /\ At(last'.effects, "drawImage") = {}
          /\ captures[c].encoding > 0
          /\ captures'[c].encoding = captures[c].encoding - 1]_vars

C21_Witness ==
  /\ last.op = "toBlob"
  /\ \E c \in 1..Len(captures) :
       captures[c].status = "resolved" /\ captures[c].played

\* C22: when the encoder calls back with no bytes, the pending capture it
\* belongs to resolves, with a null blob and its url set.
C22_NullBlobResolves ==
  [][(last'.op = "toBlob" /\ last'.value = "null")
       => \A c \in 1..Len(captures) :
            (captures[c].status = "pending"
               /\ captures'[c].encoding < captures[c].encoding)
              => /\ captures'[c].status = "resolved"
                 /\ captures'[c].blob = "null"
                 /\ captures'[c].value = "data:image/jpeg"]_vars

C22_Witness ==
  /\ last.op = "toBlob" /\ last.value = "null"
  /\ \E c \in 1..Len(captures) :
       captures[c].status = "resolved" /\ captures[c].blob = "null"

\* C29: a capture draws only inside the capture call or inside a playing
\* event.  Inside the call it draws exactly when the sink is the caller's and
\* is playing; otherwise the call registers a listener and draws nothing,
\* and the draw happens in the playing event, when the sink is playing.
C29_NoDrawFromPausedSink ==
  [][/\ \A j \in At(last'.effects, "drawImage") :
          LET c == last'.effects[j][2]
          IN  /\ last'.op \in {"capture", "playing"}
              /\ last'.op = "capture" =>
                   (captures'[c].vr = "element" /\ ~sinkPaused)
              /\ last'.op = "playing" =>
                   /\ captures[c].listening
                   /\ captures[c].vr = "element" => ~sinkPaused'
     /\ (last'.op = "capture" /\ last'.outcome = "ok") =>
          LET c == Len(captures')
          IN  IF captures'[c].vr = "element" /\ ~sinkPaused
              THEN /\ At(last'.effects, "drawImage") # {}
                   /\ ~captures'[c].listening
              ELSE /\ At(last'.effects, "drawImage") = {}
                   /\ captures'[c].listening]_vars

\* The caller's sink was paused at the call; the frame is drawn in its
\* playing event.
C29_Witness ==
  /\ last.op = "playing"
  /\ ~sinkPaused
  /\ \E c \in 1..Len(captures) :
       /\ captures[c].vr = "element" /\ captures[c].listening
       /\ <<"drawImage", c>> \in {last.effects[j] : j \in 1..Len(last.effects)}

\* The draws of a step that go onto a recording surface.
RecordingDraws(l) ==
  IF l.op \in {"startRecording", "raf"} THEN At(l.effects, "drawImage") ELSE {}

\* C28: every draw onto a recording surface goes onto a surface whose width
\* and height were resolved to positive integers, so never onto one sized
\* from a source that still reports 0 by 0.
C28_DrawsOnSizedSurface ==
  [][\A j \in RecordingDraws(last') :
       /\ recorders'[last'.effects[j][2]].canvas[1] > 0
       /\ recorders'[last'.effects[j][2]].canvas[2] > 0]_vars

\* C30: every frame drawn for a recording started with mirror = true lands
\* on the surface horizontally flipped.
C30_EveryMirroredFrameFlipped ==
  [][\A j \in RecordingDraws(last') :
       recorders'[last'.effects[j][2]].mirror
         => last'.effects[j][3] = "flipped"]_vars

\* The size computation a step has just made: native size, request, result.
Sized == IF last.op = "resolveSize" THEN {last.value} ELSE {}

\* C27 as stated: the size is the reference rule, exactly: both requested,
\* both verbatim; only width, height = nativeHeight * (width / nativeWidth);
\* only height, width = nativeWidth * (height / nativeHeight); neither, the
\* native size.
C27_SizeIsReferenceRule ==
  \A v \in Sized :
    LET nw == v.native[1]
        nh == v.native[2]
    IN  IF v.width # <<>> /\ v.height # <<>>
        THEN v.size = <<v.width[1], v.height[1]>>
        ELSE IF v.width # <<>>
        THEN v.size[1] = v.width[1] /\ v.size[2] * nw = nh * v.width[1]
        ELSE IF v.height # <<>>
        THEN v.size[2] = v.height[1] /\ v.size[1] * nh = nw * v.height[1]
        ELSE v.size = v.native

\* q is the integer part of a / b, and 0 when b is 0.
IntegerPart(q, a, b) ==
  IF b = 0 THEN q = 0 ELSE q * b <= a /\ a < (q + 1) * b

\* C27: the size is the reference rule in priority order, with a computed
\* side cut to its integer part, and 0 when the native side it is divided
\* by is 0.
C27_SizeIsTruncatedRule ==
  \A v \in Sized :
    LET nw == v.native[1]
        nh == v.native[2]
    IN  IF v.width # <<>> /\ v.height # <<>>
        THEN v.size = <<v.width[1], v.height[1]>>
        ELSE IF v.width # <<>>
        THEN /\ v.size[1] = v.width[1]
             /\ IntegerPart(v.size[2], nh * v.width[1], nw)
        ELSE IF v.height # <<>>
        THEN /\ v.size[2] = v.height[1]
             /\ IntegerPart(v.size[1], nw * v.height[1], nh)
        ELSE v.size = v.native

\* Only a width is requested and the height it gives is not a whole number:
\* 3 by 2 at width 2 is 2 by 1.
C27_Witness ==
  \E v \in Sized :
    /\ v.native = <<3, 2>> /\ v.width = <<2>> /\ v.height = <<>>
    /\ v.size = <<2, 1>>

\* C23: the component issues a device acquisition on a re-render only when
\* the constraints differ by value from those of the render before: once it
\* has issued one and holds no error, a render with value-equal constraints
\* issues none.
C23_RestartOnlyOnChange ==
  [][(camera'.issued # camera.issued /\ camera.issued # {}
        /\ camera.error = NoError)
       => camera'.cameraConstraints # camera.cameraConstraints]_vars

\* A camera start of the component fails in this step: startCamera throws,
\* or a getUserMedia request the component issued rejects.
FailedStartNow ==
  \/ last'.op = "startCamera" /\ last'.outcome = "Camera not supported"
  \/ \E k \in camera.issued :
       requests[k].status = "pending" /\ requests'[k].status = "rejected"

\* C24: onError is called exactly once in the step in which a camera start
\* of the component fails, and in no other step, a re-render included.
C24_OnErrorOncePerFailure ==
  [][Len(camera'.onError) =
       Len(camera.onError) + (IF FailedStartNow THEN 1 ELSE 0)]_vars

\* The component has re-rendered while it holds the error of one failure.
C24_Witness ==
  /\ last.op = "Camera.render"
  /\ camera.error # NoError
  /\ Len(camera.onError) = 1

\* C25 as stated: the preview is shown, and the live video hidden, exactly
\* while a captured URL is set.
C25_PreviewExactlyWhileURL ==
  /\ Render(camera).img = "shown" <=> camera.imageDataURL # NoURL
  /\ Render(camera).video = "hidden" <=> camera.imageDataURL # NoURL

\* The captures of the component that resolve, and that fail, in this step.
CaptureSucceedsNow ==
  \E c \in camera.awaited :
    captures[c].status = "pending" /\ captures'[c].status = "resolved"
CaptureFailsNow ==
  /\ last'.op = "capture"
  /\ captures'[Len(captures')].status = "rejected"

\* C25: while the component holds no error, the preview is shown and the
\* live video hidden exactly while a captured URL is set; a capture that
\* succeeds sets the URL, clear unsets it, and a capture that fails leaves
\* it as it was.
C25_PreviewWhileURLAndNoError ==
  [][/\ camera'.error = NoError =>
          /\ Render(camera').img = "shown" <=> camera'.imageDataURL # NoURL
          /\ Render(camera').video = "hidden" <=> camera'.imageDataURL # NoURL
          /\ Render(camera').video = "shown" <=> camera'.imageDataURL = NoURL
     /\ CaptureSucceedsNow => camera'.imageDataURL # NoURL
     /\ last'.op = "handleClear" => camera'.imageDataURL = NoURL
     /\ CaptureFailsNow => camera'.imageDataURL = camera.imageDataURL]_vars

\* A capture of the component has just resolved and its preview is shown.
C25_Witness ==
  /\ last.op = "toBlob"
  /\ camera.error = NoError
  /\ camera.imageDataURL # NoURL
  /\ Render(camera).img = "shown" /\ Render(camera).video = "hidden"

\* C26: the component calls onReady at most once.
C26_OnReadyAtMostOnce == camera.onReady <= 1

\* The camera has been started twice with different constraints, and the
\* <video> fires an event after onReady was called.
C26_Witness ==
  /\ last.op \in VideoEvents
  /\ last.value.already
  /\ camera.onReady = 1
  /\ \E j, k \in 1..Len(requests) :
       /\ requests[j].status = "fulfilled" /\ requests[k].status = "fulfilled"
       /\ requests[j].constraints # requests[k].constraints

\* The recorders whose stop event a step has just handled.
StopHandledNow ==
  {r \in 1..Len(recorders) :
     last'.op = "stop" /\ recorders'[r].tasks # recorders[r].tasks}

\* C31: the stop event of a recorder that is no longer the current one
\* leaves the current recording alone: its recorder stays referenced and in
\* its state, its render loop scheduled and its chunks kept, and a clip the
\* event resolves with holds chunks of the stopped recorder only.
C31_LateStopSparesNewer ==
  [][\A r \in StopHandledNow :
       (recorder # 0 /\ recorder > r) =>
         /\ recorder' = recorder
         /\ recorders'[recorder].state = recorders[recorder].state
         /\ raf' = raf
         /\ recordedData' = recordedData
         /\ last'.outcome = "resolved" =>
              \A j \in 1..Len(last'.value) : last'.value[j][1] = r]_vars

\* C32: when the stop event of a recorder has been handled, and the handler
\* did not fail, every stopRecording call made on that recorder is settled.
C32_StopSettlesOnAcknowledge ==
  [][\A r \in StopHandledNow :
       last'.outcome # "unhandled rejection" =>
         \A p \in 1..Len(stops) :
           stops[p].rec = r => stops'[p].status # "pending"]_vars

\* The acquisition requests a step has just fulfilled.
FulfilledNow ==
  {k \in 1..Len(requests) :
     requests[k].status = "pending" /\ requests'[k].status = "fulfilled"}

\* C33: an acquisition that completes right after a teardown, or after the
\* instance that asked for it has unmounted, leaves no stream held and none
\* of its tracks running.
C33_NoStreamAfterTeardown ==
  [][\A k \in FulfilledNow :
       (last.op \in Teardowns \/ ~mounted[requests[k].owner])
         => (stream' # k /\ liveTracks'[k] = {})]_vars

\* The latest acquisition request the component issued.
LatestIssued == CHOOSE k \in camera.issued : \A j \in camera.issued : j <= k
NonePending ==
  \A k \in 1..Len(requests) : requests[k].status # "pending"

\* C34: once the component has issued acquisitions for different
\* constraints and all of them have settled, what it shows is the outcome of
\* the latest one: if that one
\* succeeded no error is held, its stream is the one held and the only one
\* the <video> may carry, and the applied constraints are its constraints
\* and those of the last render; if it failed the error is held.
C34_LatestRequestWins ==
  (/\ camera.issued # {} /\ NonePending
   /\ \E j \in camera.issued :
        requests[j].constraints # requests[LatestIssued].constraints) =>
    IF requests[LatestIssued].status = "fulfilled"
    THEN /\ camera.error = NoError
         /\ stream = LatestIssued
         /\ camera.video.srcObject \in {0, LatestIssued}
         /\ camera.appliedConstraintsJson =
              Stringify(requests[LatestIssued].constraints)
         /\ requests[LatestIssued].constraints = camera.cameraConstraints
    ELSE camera.error # NoError

\* C35: a step draws, encodes or creates a surface only for a capture call
\* that is still pending: a later playing event does nothing for a capture
\* call that has completed.
C35_CompletedCaptureStaysQuiet ==
  [][\A j \in 1..Len(last'.effects) :
       (/\ last'.op = "playing"
        /\ last'.effects[j][1] \in {"drawImage", "toDataURL", "toBlob"})
         => captures[last'.effects[j][2]].status = "pending"]_vars

\* C36: when the component holds no error and the latest acquisition it
\* issued has succeeded, with none pending, its <video> carries the stream
\* that is held.
C36_SinkBoundToStream ==
  (/\ camera.error = NoError
   /\ camera.issued # {} /\ NonePending
   /\ requests[LatestIssued].status = "fulfilled")
    => (stream # 0 /\ camera.video.srcObject = stream)


====
